---- MODULE Spec2Model ----
(***************************************************************************)
(* A model of housing_analysis.py: the helper functions (load_data,        *)
(* validate_columns, print_dataset_overview, format_currency), the three   *)
(* analysis functions, the plot function and main.                         *)
(*                                                                         *)
(* Two specifications share the definitions of the functions:              *)
(*   Spec    one run of the script: main, from the call of load_data to    *)
(*           the exit of the interpreter;                                  *)
(*   SpecFn  one call of one function on arguments drawn from bounded sets.*)
(*                                                                         *)
(* Floats are modelled as exact rationals in lowest terms (NaN apart), a   *)
(* correlation coefficient by its sign and its square.  A file's content is*)
(* modelled by what pd.read_csv makes of it: a table, or a parse error.    *)
(***************************************************************************)
EXTENDS Integers, Sequences, FiniteSets, TLC

\* ---------------------------------------------------------------- bounds
MaxRows == 3
MaxFileRows == 2
MaxRequired == 4

\* --------------------------------------------------------- configuration
DATA_FILE == "Housing.csv"
FIGURE_FILE == "area_vs_price.png"
\* Two more paths, for calls of load_data and plot_area_vs_price on their own.
MISSING_FILE == "NoSuchFile.csv"
OTHER_FILE == "other.png"

\* ------------------------------------------------------------------ cells
\* A cell of a DataFrame: a number, a string, or missing (NaN).
NaN == [kind |-> "nan", num |-> 0, str |-> ""]
Num(v) == [kind |-> "num", num |-> v, str |-> ""]
Str(s) == [kind |-> "str", num |-> 0, str |-> s]
isna(c) == c.kind = "nan"

\* The order Python's < gives the strings the model uses.
TextOrder == <<"no", "two", "unknown", "yes">>
TextRank(s) == CHOOSE i \in 1..Len(TextOrder) : TextOrder[i] = s

\* a < b for two cells of one column (numbers, or strings).
CellLess(a, b) ==
    IF a.kind = "num" /\ b.kind = "num" THEN a.num < b.num
    ELSE IF a.kind = "str" /\ b.kind = "str" THEN TextRank(a.str) < TextRank(b.str)
    ELSE FALSE

\* ----------------------------------------------------------------- floats
RECURSIVE gcd(_, _)
gcd(a, b) == IF b = 0 THEN a ELSE gcd(b, a % b)
Abs(x) == IF x < 0 THEN -x ELSE x

\* float("nan") and the float n/d (d > 0), in lowest terms.
NaNFloat == [nan |-> TRUE, num |-> 0, den |-> 1]
Float(n, d) ==
    LET g == gcd(Abs(n), d)
    IN [nan |-> FALSE, num |-> n \div g, den |-> d \div g]

\* a - b on floats: NaN if either is NaN.
FloatSub(a, b) ==
    IF a.nan \/ b.nan THEN NaNFloat
    ELSE Float(a.num * b.den - b.num * a.den, a.den * b.den)

\* ----------------------------------------------------------------- tables
ALL_COLUMNS == <<"price", "area", "bedrooms", "airconditioning", "stories">>
REQUIRED == <<"bedrooms", "price", "airconditioning", "area">>

Row(b, p, ac, ar) ==
    [bedrooms |-> b, price |-> p, airconditioning |-> ac, area |-> ar,
     stories |-> Num(1)]

\* A DataFrame: its column names in order, and its rows (column name -> cell).
Table(cols, rows) ==
    [columns |-> cols,
     rows |-> [i \in 1..Len(rows) |-> [c \in {cols[j] : j \in 1..Len(cols)} |-> rows[i][c]]]]
NoTable == [columns |-> <<>>, rows |-> <<>>]

ColumnSet(df) == {df.columns[j] : j \in 1..Len(df.columns)}
\* df[col]
Column(df, col) == [i \in 1..Len(df.rows) |-> df.rows[i][col]]

\* Sequences over S of length at most n.
SeqUpTo(S, n) == UNION {[1..k -> S] : k \in 0..n}

\* ------------------------------------------------------------ file system
\* A file: absent, a file pd.read_csv cannot parse, a CSV file (modelled by the
\* table read_csv makes of it), or an image (modelled by the figure saved).
Absent == [kind |-> "absent", table |-> NoTable, figure |-> <<>>]
Garbled == [kind |-> "garbled", table |-> NoTable, figure |-> <<>>]
Csv(t) == [kind |-> "csv", table |-> t, figure |-> <<>>]
Image(fig) == [kind |-> "image", table |-> NoTable, figure |-> fig]
Paths == {DATA_FILE, MISSING_FILE, FIGURE_FILE, OTHER_FILE}

\* str | None
None == [some |-> FALSE, path |-> ""]
Some(p) == [some |-> TRUE, path |-> p]
\* Python's truth value of a str | None: None and "" are false.
Truthy(save_path) == save_path.some /\ save_path.path # ""

\* What a call leaves: the exception it raised ("" if none), the value it
\* returned, the exception's message.
Returned(v) == [raised |-> "", value |-> v, message |-> <<>>]
Raised(exc, msg) == [raised |-> exc, value |-> "None", message |-> msg]

\* An effect outside the process: a call of os.path.exists, read_csv, ...
Event(op, path) == [op |-> op, path |-> path]

\* ----------------------------------------------------------------- helpers
exists(path, fs) == fs[path].kind # "absent"

\* pd.read_csv(path): the table, or a parse error.
read_csv(path, fs) ==
    IF fs[path].kind = "csv" THEN Returned(fs[path].table)
    ELSE Raised("ParserError", <<path>>)

\* Variant: load_data without the test of os.path.exists.
load_data_NoCheck(path, fs) ==
    [result |-> read_csv(path, fs),
     events |-> <<Event("os.path.exists", path), Event("pd.read_csv", path)>>]

\* load_data(path): the result, and the file-system calls made.
load_data(path, fs) ==
    IF ~exists(path, fs)
    THEN [result |-> Raised("FileNotFoundError", <<path>>),
          events |-> <<Event("os.path.exists", path)>>]
    ELSE [result |-> read_csv(path, fs),
          events |-> <<Event("os.path.exists", path), Event("pd.read_csv", path)>>]

CountNa(cells) == Cardinality({i \in 1..Len(cells) : isna(cells[i])})
HEAD_ROWS == 5
head(df) ==
    SubSeq(df.rows, 1, IF Len(df.rows) < HEAD_ROWS THEN Len(df.rows) ELSE HEAD_ROWS)

Line(label, value) == [label |-> label, value |-> value]

\* print_dataset_overview(df): the lines printed.
print_dataset_overview(df) ==
    << Line("=== Dataset Overview ===", <<>>),
       Line("Rows", Len(df.rows)),
       Line("Columns", Len(df.columns)),
       Line("Column names", df.columns),
       Line("First 5 rows", head(df)),
       Line("Missing values per column",
            [c \in ColumnSet(df) |-> CountNa(Column(df, c))]) >>

\* Variant: validate_columns reporting only the first missing name.
validate_columns_FirstOnly(df, required) ==
    LET missing == SelectSeq(required, LAMBDA col : col \notin ColumnSet(df))
    IN IF missing # <<>> THEN Raised("KeyError", <<Head(missing)>>)
       ELSE Returned("None")

\* validate_columns(df, required)
validate_columns(df, required) ==
    LET missing == SelectSeq(required, LAMBDA col : col \notin ColumnSet(df))
    IN IF missing # <<>> THEN Raised("KeyError", missing)
       ELSE Returned("None")

RECURSIVE Groups(_)
Groups(n) == IF n < 1000 THEN <<n>> ELSE Append(Groups(n \div 1000), n % 1000)

\* format_currency(value): f"{value:,.2f}" as sign, the groups of three digits
\* of the whole part, and the two decimals (round half to even); "nan" for NaN.
format_currency(value) ==
    IF value.nan THEN [text |-> "nan", neg |-> FALSE, groups |-> <<>>, cents |-> 0]
    ELSE LET a == Abs(value.num) * 100
             q == a \div value.den
             r == a % value.den
             h == IF 2 * r > value.den \/ (2 * r = value.den /\ q % 2 = 1)
                  THEN q + 1 ELSE q
         IN [text |-> "number", neg |-> value.num < 0,
             groups |-> Groups(h \div 100), cents |-> h % 100]

\* --------------------------------------------------------------- analysis
RECURSIVE SumNum(_)
SumNum(cells) == IF cells = <<>> THEN 0 ELSE Head(cells).num + SumNum(Tail(cells))

\* Series.mean(): NaN cells are skipped; NaN if nothing is left.
mean(cells) ==
    LET valid == SelectSeq(cells, LAMBDA c : ~isna(c))
    IN IF valid = <<>> THEN NaNFloat ELSE Float(SumNum(valid), Len(valid))

Contains(seq, x) == \E i \in 1..Len(seq) : seq[i] = x
IndexOf(seq, x) == CHOOSE i \in 1..Len(seq) : seq[i] = x

\* The distinct values of a column in order of first appearance, with the
\* missing ones (groupby's dropna=True) or without dropping them.
RECURSIVE factorize(_, _, _)
factorize(cells, seen, dropna) ==
    IF cells = <<>> THEN seen
    ELSE LET c == Head(cells)
         IN factorize(Tail(cells),
                      IF (dropna /\ isna(c)) \/ Contains(seen, c) THEN seen
                      ELSE Append(seen, c),
                      dropna)

\* Insertion of entry x into a sequence sorted by key, after its equals.
RECURSIVE Insert(_, _)
Insert(sorted, x) ==
    IF sorted = <<>> THEN <<x>>
    ELSE IF CellLess(x.key, Head(sorted).key) THEN <<x>> \o sorted
    ELSE <<Head(sorted)>> \o Insert(Tail(sorted), x)

\* A stable sort of entries by key.
RECURSIVE Sort(_)
Sort(seq) ==
    IF seq = <<>> THEN <<>>
    ELSE Insert(Sort(SubSeq(seq, 1, Len(seq) - 1)), seq[Len(seq)])

SortCells(cells) ==
    LET sorted == Sort([i \in 1..Len(cells) |-> [key |-> cells[i]]])
    IN [i \in 1..Len(cells) |-> sorted[i].key]

\* Variants: the keys as with sort=False, and as with dropna=False.
group_keys_Unsorted(cells) == factorize(cells, <<>>, TRUE)
group_keys_KeepNa(cells) == SortCells(factorize(cells, <<>>, FALSE))

\* The group keys of groupby(col): sort=True, dropna=True.
group_keys(cells) == SortCells(factorize(cells, <<>>, TRUE))

\* Variant: group_accumulate counting the rows whose value is missing too.
RECURSIVE group_accumulate_CountNa(_, _, _, _, _)
group_accumulate_CountNa(keys, labels, values, i, acc) ==
    IF i > Len(labels) THEN acc
    ELSE group_accumulate_CountNa(keys, labels, values, i + 1,
            IF isna(labels[i]) \/ ~Contains(keys, labels[i])
            THEN acc
            ELSE LET g == IndexOf(keys, labels[i])
                 IN [acc EXCEPT ![g] = [nobs |-> @.nobs + 1,
                                        sumx |-> @.sumx + values[i].num]])

\* One pass over the rows, as pandas' group_mean: a row adds its value to its
\* group's sum and count unless its key or its value is missing.
RECURSIVE group_accumulate(_, _, _, _, _)
group_accumulate(keys, labels, values, i, acc) ==
    IF i > Len(labels) THEN acc
    ELSE group_accumulate(keys, labels, values, i + 1,
            IF isna(labels[i]) \/ ~Contains(keys, labels[i]) \/ isna(values[i])
            THEN acc
            ELSE LET g == IndexOf(keys, labels[i])
                 IN [acc EXCEPT ![g] = [nobs |-> @.nobs + 1,
                                        sumx |-> @.sumx + values[i].num]])

\* The series of the groups' means from the accumulated sums and counts: NaN
\* for a group that counted no value.
group_result(keys, acc) ==
    [g \in 1..Len(keys) |->
       [key |-> keys[g],
        mean |-> IF acc[g].nobs = 0 THEN NaNFloat
                 ELSE Float(acc[g].sumx, acc[g].nobs)]]

\* Variant: groupby(by)[col].mean() dividing by the size of the group.
groupby_mean_CountNa(df, by, col) ==
    LET keys == group_keys(Column(df, by))
    IN group_result(keys,
          group_accumulate_CountNa(keys, Column(df, by), Column(df, col), 1,
                                   [g \in 1..Len(keys) |-> [nobs |-> 0, sumx |-> 0]]))

\* df.groupby(by)[col].mean(): one entry per group key, in the keys' order.
groupby_mean(df, by, col) ==
    LET keys == group_keys(Column(df, by))
    IN group_result(keys,
          group_accumulate(keys, Column(df, by), Column(df, col), 1,
                           [g \in 1..Len(keys) |-> [nobs |-> 0, sumx |-> 0]]))

\* Series.sort_index()
sort_index(series) == Sort(series)

\* Variant: avg_price_by_bedrooms with groupby(sort=False) and no sort_index.
avg_price_by_bedrooms_FirstSeen(df) ==
    LET keys == group_keys_Unsorted(Column(df, "bedrooms"))
    IN group_result(keys,
          group_accumulate(keys, Column(df, "bedrooms"), Column(df, "price"), 1,
                           [g \in 1..Len(keys) |-> [nobs |-> 0, sumx |-> 0]]))

\* avg_price_by_bedrooms(df)
avg_price_by_bedrooms(df) == sort_index(groupby_mean(df, "bedrooms", "price"))

\* df.loc[df[col] == label, "price"]
loc_price(df, col, label) ==
    LET rows == SelectSeq(df.rows, LAMBDA r : r[col] = Str(label))
    IN [i \in 1..Len(rows) |-> rows[i]["price"]]

\* Variant: compare_air_conditioning taking every row not flagged "yes" as "no".
compare_air_conditioning_Else(df) ==
    LET with_ac == mean(loc_price(df, "airconditioning", "yes"))
        rest == SelectSeq(df.rows, LAMBDA r : r["airconditioning"] # Str("yes"))
        without_ac == mean([i \in 1..Len(rest) |-> rest[i]["price"]])
    IN <<with_ac, without_ac, FloatSub(with_ac, without_ac)>>

\* compare_air_conditioning(df)
compare_air_conditioning(df) ==
    LET with_ac == mean(loc_price(df, "airconditioning", "yes"))
        without_ac == mean(loc_price(df, "airconditioning", "no"))
        diff == FloatSub(with_ac, without_ac)
    IN <<with_ac, without_ac, diff>>

\* A correlation coefficient r, or NaN: its sign, and r * r = p / q in lowest
\* terms.
NaNCorr == [nan |-> TRUE, sign |-> 0, p |-> 0, q |-> 1]
Sign(x) == IF x < 0 THEN -1 ELSE IF x > 0 THEN 1 ELSE 0
\* The coefficient c01 / sqrt(c00 * c11), for c00 * c11 > 0.
Coefficient(c01, c00, c11) ==
    LET g == gcd(c01 * c01, c00 * c11)
    IN [nan |-> FALSE, sign |-> Sign(c01),
        p |-> (c01 * c01) \div g, q |-> (c00 * c11) \div g]
\* np.clip(c, -1, 1)
clip(r) == IF r.p > r.q THEN [nan |-> FALSE, sign |-> r.sign, p |-> 1, q |-> 1] ELSE r

RECURSIVE Dot(_, _)
Dot(u, v) == IF u = <<>> THEN 0 ELSE Head(u) * Head(v) + Dot(Tail(u), Tail(v))
RECURSIVE SumInt(_)
SumInt(u) == IF u = <<>> THEN 0 ELSE Head(u) + SumInt(Tail(u))

\* np.corrcoef(xs, ys)[0, 1] for n >= 1 pairs: the deviations from the means
\* (here times n), their products summed, c01 / sqrt(c00) / sqrt(c11), clipped.
\* n = 1 divides by n - 1 = 0 and a zero variance divides 0 by 0: NaN.
corrcoef(xs, ys) ==
    LET n == Len(xs)
        dx == [i \in 1..n |-> n * xs[i] - SumInt(xs)]
        dy == [i \in 1..n |-> n * ys[i] - SumInt(ys)]
        c01 == Dot(dx, dy)
        c00 == Dot(dx, dx)
        c11 == Dot(dy, dy)
    IN IF n - 1 <= 0 \/ c00 = 0 \/ c11 = 0 THEN NaNCorr
       ELSE clip(Coefficient(c01, c00, c11))

\* Variant: a.corr(b) giving 0 where the coefficient is undefined.
corr_ZeroForConstant(a, b) ==
    LET valid == SelectSeq([i \in 1..Len(a) |-> i], LAMBDA i : ~isna(a[i]) /\ ~isna(b[i]))
        r == corrcoef([k \in 1..Len(valid) |-> a[valid[k]].num],
                      [k \in 1..Len(valid) |-> b[valid[k]].num])
    IN IF r.nan THEN [nan |-> FALSE, sign |-> 0, p |-> 0, q |-> 1] ELSE r

\* a.corr(b): Pearson, over the rows where both are present; NaN if none is.
corr(a, b) ==
    LET valid == SelectSeq([i \in 1..Len(a) |-> i], LAMBDA i : ~isna(a[i]) /\ ~isna(b[i]))
    IN IF Len(valid) < 1 THEN NaNCorr
       ELSE corrcoef([k \in 1..Len(valid) |-> a[valid[k]].num],
                     [k \in 1..Len(valid) |-> b[valid[k]].num])

\* area_price_correlation(df)
area_price_correlation(df) == corr(Column(df, "area"), Column(df, "price"))

\* ------------------------------------------------------------------- plot
\* The figure plt.scatter and the labels build.
Figure(df) ==
    [points |-> [i \in 1..Len(df.rows) |-> <<df.rows[i]["area"], df.rows[i]["price"]>>],
     xlabel |-> "Area (sq ft)", ylabel |-> "Price", title |-> "House Area vs Price"]

\* Variant: plot_area_vs_price saving to FIGURE_FILE whatever save_path is.
plot_area_vs_price_AlwaysSave(df, save_path, fs) ==
    [files |-> [fs EXCEPT ![FIGURE_FILE] = Image(Figure(df))],
     printed |-> <<Line("Saved plot to", FIGURE_FILE)>>,
     events |-> <<Event("plt.figure", ""), Event("plt.scatter", ""),
                  Event("plt.savefig", FIGURE_FILE), Event("plt.show", "")>>,
     result |-> Returned("None")]

\* plot_area_vs_price(df, save_path): the file system it leaves, the lines it
\* prints, its calls of pyplot in order, and its result.
plot_area_vs_price(df, save_path, fs) ==
    IF Truthy(save_path)
    THEN [files |-> [fs EXCEPT ![save_path.path] = Image(Figure(df))],
          printed |-> <<Line("Saved plot to", save_path.path)>>,
          events |-> <<Event("plt.figure", ""), Event("plt.scatter", ""),
                       Event("plt.savefig", save_path.path), Event("plt.show", "")>>,
          result |-> Returned("None")]
    ELSE [files |-> fs,
          printed |-> <<>>,
          events |-> <<Event("plt.figure", ""), Event("plt.scatter", ""),
                       Event("plt.show", "")>>,
          result |-> Returned("None")]

\* ------------------------------------------------------------------ state
VARIABLES
    pc,        \* where the program is: the function main calls next, or "exit"
    files,     \* the file system: path -> file
    df,        \* main's table
    stdout,    \* the lines printed
    stderr,    \* the traceback of an uncaught exception
    exitcode,  \* <<>> while the process runs, then <<code>>
    events,    \* the calls made of os, pandas' reader and pyplot, in order
    steps,     \* the steps main has run, each with its outcome
    fn,        \* SpecFn: the function called
    args,      \* SpecFn: its arguments
    ret        \* SpecFn: what the call left

vars == <<pc, files, df, stdout, stderr, exitcode, events, steps, fn, args, ret>>

\* ------------------------------------------------------------ input sets
PriceCells == {Num(100), Num(200), Num(300), NaN}
RowsByBedrooms ==
    {Row(b, p, Str("yes"), Num(1)) : b \in {Num(2), Num(3), NaN}, p \in PriceCells}
RowsByFlag ==
    {Row(Num(2), p, f, Num(1)) :
        p \in {Num(50), Num(100), Num(300), NaN},
        f \in {Str("yes"), Str("no"), Str("unknown"), NaN}}
RowsByArea ==
    {Row(Num(2), p, Str("no"), a) : p \in PriceCells, a \in {Num(1), Num(2), NaN}}
RowsToPlot ==
    {Row(Num(2), p, Str("no"), a) : p \in {Num(100), NaN}, a \in {Num(1), Num(2)}}
\* Rows of a file whose bedrooms column holds text: read_csv makes it a column
\* of strings.
RowsWithText ==
    {Row(b, p, Str("yes"), Num(1)) : b \in {Str("two"), NaN}, p \in {Num(100), NaN}}

Tables(rows, n) == {Table(ALL_COLUMNS, r) : r \in SeqUpTo(rows, n)}
TextTables(n) ==
    {t \in Tables(RowsWithText, n) : \E i \in 1..Len(t.rows) : t.rows[i]["bedrooms"].kind = "str"}
\* Tables with any subset of the columns.
OneRow == <<Row(Num(2), Num(100), Str("yes"), Num(1))>>
SubColumns(S) == SelectSeq(ALL_COLUMNS, LAMBDA c : c \in S)
PartialTables ==
    {Table(SubColumns(S), OneRow) : S \in SUBSET {ALL_COLUMNS[j] : j \in 1..Len(ALL_COLUMNS)}}

\* What Housing.csv may hold in a run.
FileTables ==
    Tables(RowsByBedrooms, MaxFileRows) \cup Tables(RowsByFlag, MaxFileRows)
    \cup Tables(RowsByArea, MaxFileRows) \cup TextTables(MaxFileRows) \cup PartialTables

StaleImage == Image([points |-> <<>>, xlabel |-> "", ylabel |-> "", title |-> "stale"])
NoArgs == [df |-> NoTable, required |-> <<>>, path |-> "", save_path |-> None]

\* ------------------------------------------------------------------- main
Step(name, outcome) == [name |-> name, outcome |-> outcome]

\* An exception no one catches: the interpreter prints the traceback to
\* stderr and exits with status 1.
Uncaught(name, result) ==
    /\ steps' = Append(steps, Step(name, "raised"))
    /\ stderr' = Append(stderr, [exception |-> result.raised, message |-> result.message])
    /\ exitcode' = <<1>>
    /\ pc' = "exit"

\* int(x) of a group key: a number converts, a string that is no numeral and
\* a NaN raise ValueError.
int(c) == IF c.kind = "num" THEN Returned(c.num) ELSE Raised("ValueError", <<c>>)

Init ==
    /\ pc = "load_data"
    /\ \E data \in {Absent, Garbled} \cup {Csv(t) : t \in FileTables},
          figure \in {Absent, StaleImage} :
          files = [p \in Paths |-> IF p = DATA_FILE THEN data
                                   ELSE IF p = FIGURE_FILE THEN figure ELSE Absent]
    /\ df = NoTable
    /\ stdout = <<>>
    /\ stderr = <<>>
    /\ exitcode = <<>>
    /\ events = <<>>
    /\ steps = <<>>
    /\ fn = "main"
    /\ args = NoArgs
    /\ ret = Returned("None")

\* df = load_data(DATA_FILE)
Load ==
    /\ pc = "load_data"
    /\ LET r == load_data(DATA_FILE, files)
       IN /\ events' = events \o r.events
          /\ \/ /\ r.result.raised = ""
                /\ df' = r.result.value
                /\ steps' = Append(steps, Step("load_data", "ok"))
                /\ pc' = "validate_columns"
                /\ UNCHANGED <<stderr, exitcode>>
             \/ /\ r.result.raised # ""
                /\ Uncaught("load_data", r.result)
                /\ UNCHANGED df
    /\ UNCHANGED <<files, stdout, fn, args, ret>>

\* Variant: main catching the validation error, reporting it and going on.
Validate_Continue ==
    /\ pc = "validate_columns"
    /\ LET r == validate_columns(df, REQUIRED)
       IN /\ steps' = Append(steps, Step("validate_columns",
                                         IF r.raised = "" THEN "ok" ELSE "raised"))
          /\ stderr' = IF r.raised = "" THEN stderr
                       ELSE Append(stderr, [exception |-> r.raised, message |-> r.message])
    /\ pc' = "print_dataset_overview"
    /\ UNCHANGED <<files, df, stdout, exitcode, events, fn, args, ret>>

\* validate_columns(df, ["bedrooms", "price", "airconditioning", "area"])
Validate ==
    /\ pc = "validate_columns"
    /\ LET r == validate_columns(df, REQUIRED)
       IN \/ /\ r.raised = ""
             /\ steps' = Append(steps, Step("validate_columns", "ok"))
             /\ pc' = "print_dataset_overview"
             /\ UNCHANGED <<stderr, exitcode>>
          \/ /\ r.raised # ""
             /\ Uncaught("validate_columns", r)
    /\ UNCHANGED <<files, df, stdout, events, fn, args, ret>>

\* Variant: print_dataset_overview dropping the rows with a missing value
\* from the table it was given (dropna(inplace=True)).
Overview_DropNa ==
    /\ pc = "print_dataset_overview"
    /\ df' = [df EXCEPT !.rows = SelectSeq(df.rows,
                     LAMBDA r : \A c \in ColumnSet(df) : ~isna(r[c]))]
    /\ stdout' = stdout \o print_dataset_overview(df')
    /\ steps' = Append(steps, Step("print_dataset_overview", "ok"))
    /\ pc' = "avg_price_by_bedrooms"
    /\ UNCHANGED <<files, stderr, exitcode, events, fn, args, ret>>

\* print_dataset_overview(df)
Overview ==
    /\ pc = "print_dataset_overview"
    /\ stdout' = stdout \o print_dataset_overview(df)
    /\ steps' = Append(steps, Step("print_dataset_overview", "ok"))
    /\ pc' = "avg_price_by_bedrooms"
    /\ UNCHANGED <<files, df, stderr, exitcode, events, fn, args, ret>>

\* Question 1: the series, then one formatted line per group until int() of a
\* key raises.
Question1 ==
    /\ pc = "avg_price_by_bedrooms"
    /\ LET by_bedrooms == avg_price_by_bedrooms(df)
           bad == {i \in 1..Len(by_bedrooms) : int(by_bedrooms[i].key).raised # ""}
           stop == IF bad = {} THEN Len(by_bedrooms) + 1
                   ELSE CHOOSE i \in bad : \A j \in bad : i <= j
           formatted == [i \in 1..(stop - 1) |->
                            Line("bedroom(s)", <<int(by_bedrooms[i].key).value,
                                                 format_currency(by_bedrooms[i].mean)>>)]
           printed == << Line("=== Question 1: Average price by number of bedrooms ===", <<>>),
                         Line("by_bedrooms", by_bedrooms),
                         Line("(Formatted)", <<>>) >> \o formatted
       IN /\ stdout' = stdout \o printed
          /\ \/ /\ bad = {}
                /\ steps' = Append(steps, Step("avg_price_by_bedrooms", "ok"))
                /\ pc' = "compare_air_conditioning"
                /\ UNCHANGED <<stderr, exitcode>>
             \/ /\ bad # {}
                /\ Uncaught("avg_price_by_bedrooms", int(by_bedrooms[stop].key))
    /\ UNCHANGED <<files, df, events, fn, args, ret>>

\* Question 2
Question2 ==
    /\ pc = "compare_air_conditioning"
    /\ LET r == compare_air_conditioning(df)
       IN stdout' = stdout \o
            << Line("=== Question 2: Air conditioning vs price ===", <<>>),
               Line("Average price WITH air conditioning", format_currency(r[1])),
               Line("Average price WITHOUT air conditioning", format_currency(r[2])),
               Line("Difference (with - without)", format_currency(r[3])) >>
    /\ steps' = Append(steps, Step("compare_air_conditioning", "ok"))
    /\ pc' = "area_price_correlation"
    /\ UNCHANGED <<files, df, stderr, exitcode, events, fn, args, ret>>

\* Extra: the correlation (printed with 4 decimals; the model keeps its value).
Correlation ==
    /\ pc = "area_price_correlation"
    /\ stdout' = stdout \o
          << Line("=== Extra: Correlation (Area vs Price) ===", <<>>),
             Line("Pearson correlation between area and price", area_price_correlation(df)) >>
    /\ steps' = Append(steps, Step("area_price_correlation", "ok"))
    /\ pc' = "plot_area_vs_price"
    /\ UNCHANGED <<files, df, stderr, exitcode, events, fn, args, ret>>

\* Question 3: the plot; main returns and the interpreter exits with status 0.
Plot ==
    /\ pc = "plot_area_vs_price"
    /\ LET r == plot_area_vs_price(df, Some(FIGURE_FILE), files)
       IN /\ files' = r.files
          /\ stdout' = stdout \o <<Line("=== Question 3: Plot (Area vs Price) ===", <<>>)>>
                              \o r.printed
          /\ events' = events \o r.events
    /\ steps' = Append(steps, Step("plot_area_vs_price", "ok"))
    /\ exitcode' = <<0>>
    /\ pc' = "exit"
    /\ UNCHANGED <<df, stderr, fn, args, ret>>

Next == Load \/ Validate \/ Overview \/ Question1 \/ Question2 \/ Correlation \/ Plot

Spec == Init /\ [][Next]_vars

\* --------------------------------------------- one call of one function
FigureStates == {Absent, StaleImage}
NoFiles == [p \in Paths |-> Absent]

CallArgs(f) ==
    CASE f = "load_data" ->
           {[NoArgs EXCEPT !.path = p] : p \in {DATA_FILE, MISSING_FILE}}
      [] f = "validate_columns" ->
           {[NoArgs EXCEPT !.df = t, !.required = r] :
               t \in PartialTables,
               r \in SeqUpTo({REQUIRED[j] : j \in 1..Len(REQUIRED)}, MaxRequired)}
      [] f = "avg_price_by_bedrooms" ->
           {[NoArgs EXCEPT !.df = t] : t \in Tables(RowsByBedrooms, MaxRows)}
      [] f = "compare_air_conditioning" ->
           {[NoArgs EXCEPT !.df = t] : t \in Tables(RowsByFlag, MaxRows)}
      [] f = "area_price_correlation" ->
           {[NoArgs EXCEPT !.df = t] : t \in Tables(RowsByArea, MaxRows)}
      [] f = "plot_area_vs_price" ->
           {[NoArgs EXCEPT !.df = t, !.save_path = sp] :
               t \in Tables(RowsToPlot, MaxRows),
               sp \in {None, Some(""), Some(FIGURE_FILE), Some(OTHER_FILE)}}

CallFiles(f) ==
    CASE f = "load_data" ->
           {[NoFiles EXCEPT ![DATA_FILE] = d] :
               d \in {Absent, Garbled} \cup {Csv(t) : t \in Tables(RowsToPlot, 1)}}
      [] f = "plot_area_vs_price" ->
           {[NoFiles EXCEPT ![FIGURE_FILE] = a, ![OTHER_FILE] = b] :
               a \in FigureStates, b \in FigureStates}
      [] OTHER -> {NoFiles}

FUNCTIONS == {"load_data", "validate_columns", "avg_price_by_bedrooms",
              "compare_air_conditioning", "area_price_correlation", "plot_area_vs_price"}

InitFn ==
    /\ pc = "call"
    /\ fn \in FUNCTIONS
    /\ args \in CallArgs(fn)
    /\ files \in CallFiles(fn)
    /\ df = NoTable
    /\ stdout = <<>>
    /\ stderr = <<>>
    /\ exitcode = <<>>
    /\ events = <<>>
    /\ steps = <<>>
    /\ ret = Returned("None")

CallLoad ==
    /\ pc = "call" /\ fn = "load_data"
    /\ LET r == load_data(args.path, files)
       IN ret' = r.result /\ events' = events \o r.events
    /\ pc' = "returned"
    /\ UNCHANGED <<files, df, stdout, stderr, exitcode, steps, fn, args>>

CallValidate ==
    /\ pc = "call" /\ fn = "validate_columns"
    /\ ret' = validate_columns(args.df, args.required)
    /\ pc' = "returned"
    /\ UNCHANGED <<files, df, stdout, stderr, exitcode, events, steps, fn, args>>

CallAverage ==
    /\ pc = "call" /\ fn = "avg_price_by_bedrooms"
    /\ ret' = Returned(avg_price_by_bedrooms(args.df))
    /\ pc' = "returned"
    /\ UNCHANGED <<files, df, stdout, stderr, exitcode, events, steps, fn, args>>

CallCompare ==
    /\ pc = "call" /\ fn = "compare_air_conditioning"
    /\ ret' = Returned(compare_air_conditioning(args.df))
    /\ pc' = "returned"
    /\ UNCHANGED <<files, df, stdout, stderr, exitcode, events, steps, fn, args>>

CallCorrelation ==
    /\ pc = "call" /\ fn = "area_price_correlation"
    /\ ret' = Returned(area_price_correlation(args.df))
    /\ pc' = "returned"
    /\ UNCHANGED <<files, df, stdout, stderr, exitcode, events, steps, fn, args>>

CallPlot ==
    /\ pc = "call" /\ fn = "plot_area_vs_price"
    /\ LET r == plot_area_vs_price(args.df, args.save_path, files)
       IN /\ ret' = r.result
          /\ files' = r.files
          /\ stdout' = stdout \o r.printed
          /\ events' = events \o r.events
    /\ pc' = "returned"
    /\ UNCHANGED <<df, stderr, exitcode, steps, fn, args>>

NextFn == CallLoad \/ CallValidate \/ CallAverage \/ CallCompare \/ CallCorrelation \/ CallPlot

SpecFn == InitFn /\ [][NextFn]_vars

\* ----------------------------------------------------------------- claims
MainOrder == <<"load_data", "validate_columns", "print_dataset_overview",
               "avg_price_by_bedrooms", "compare_air_conditioning",
               "area_price_correlation", "plot_area_vs_price">>

\* Load and validation have succeeded in this run.
Validated ==
    /\ Len(steps) >= 2
    /\ steps[1] = Step("load_data", "ok")
    /\ steps[2] = Step("validate_columns", "ok")

\* The steps run so far are the first steps of MainOrder, each once and each
\* completed; a run that has not ended is about to take the next one, and a
\* run that has ended has taken all seven and exited with code 0.
RunsInOrderToExit0 ==
    /\ Len(steps) <= Len(MainOrder)
    /\ \A i \in 1..Len(steps) : steps[i] = Step(MainOrder[i], "ok")
    /\ pc = "exit" => Len(steps) = Len(MainOrder) /\ exitcode = <<0>>
    /\ pc # "exit" =>
          /\ Len(steps) < Len(MainOrder)
          /\ pc = MainOrder[Len(steps) + 1]
          /\ exitcode = <<>>

\* bedrooms, price and area hold numbers or missing values only.
NumericColumns(t) ==
    \A i \in 1..Len(t.rows) : \A c \in {"bedrooms", "price", "area"} :
        t.rows[i][c].kind # "str"

\* C1 as stated: in every run whose load and validation succeed, main runs the
\* seven steps in order, each exactly once, and exits with code 0.
C1_AsStated == Validated => RunsInOrderToExit0

\* C1, amended: in every run whose load and validation succeed and whose
\* bedrooms, price and area columns hold only (finite) numbers or missing
\* values, main runs the seven steps in order, each exactly once, and the run
\* then ends with exit code 0.
C1_OrderAndExit == (Validated /\ NumericColumns(df)) => RunsInOrderToExit0

\* A run over a table with a missing bedrooms value that has exited with 0.
C1_Witness ==
    /\ pc = "exit" /\ exitcode = <<0>> /\ Len(steps) = 7
    /\ \E i \in 1..Len(df.rows) : isna(df.rows[i]["bedrooms"])
    /\ \E i \in 1..Len(df.rows) : ~isna(df.rows[i]["bedrooms"])

EarlyFailure(i) ==
    /\ steps[i].outcome = "raised"
    /\ steps[i].name \in {"load_data", "validate_columns"}

\* C2: if load_data or validate_columns fails, the run is over with a non-zero
\* exit code and the exception on stderr, the failed step is the last one,
\* nothing has been printed, pyplot has not been called and the image file is
\* as it was.
C2_FailFast ==
    \A i \in 1..Len(steps) : EarlyFailure(i) =>
        /\ i = Len(steps)
        /\ pc = "exit"
        /\ exitcode # <<>> /\ exitcode[1] # 0
        /\ Len(stderr) = 1
        /\ stderr[1].exception \in {"FileNotFoundError", "ParserError", "KeyError"}
        /\ stdout = <<>>
        /\ \A k \in 1..Len(events) : events[k].op \in {"os.path.exists", "pd.read_csv"}
        /\ files[FIGURE_FILE] \in {Absent, StaleImage}

\* A run that validation ended, with a stale image left in place.
C2_Witness ==
    /\ Len(steps) = 2 /\ EarlyFailure(2)
    /\ stderr[1].exception = "KeyError"
    /\ files[FIGURE_FILE] = StaleImage

AfterCall(f) == pc = "returned" /\ fn = f
Names(seq) == {seq[i] : i \in 1..Len(seq)}

\* C3: validate_columns returns None iff every required name is a column;
\* otherwise it raises KeyError and the names in its message are exactly the
\* required names that are no column.
C3_ValidateColumns ==
    AfterCall("validate_columns") =>
        LET absent == Names(args.required) \ ColumnSet(args.df)
        IN /\ ret.raised = "" <=> absent = {}
           /\ ret.raised = "" => ret = Returned("None")
           /\ ret.raised # "" => ret.raised = "KeyError" /\ Names(ret.message) = absent

\* A call with two required names absent and one present.
C3_Witness ==
    /\ AfterCall("validate_columns")
    /\ Cardinality(Names(ret.message)) = 2
    /\ Names(args.required) \cap ColumnSet(args.df) # {}

Ops(evs) == [i \in 1..Len(evs) |-> evs[i].op]

\* C4: load_data raises FileNotFoundError when the path does not exist, and
\* has not called read_csv; when the path exists it calls read_csv once, on
\* that path, and returns the table read (or fails with read_csv's error).
C4_LoadData ==
    AfterCall("load_data") =>
        /\ ~exists(args.path, files) =>
              /\ ret.raised = "FileNotFoundError"
              /\ Ops(events) = <<"os.path.exists">>
        /\ exists(args.path, files) =>
              /\ events = <<Event("os.path.exists", args.path), Event("pd.read_csv", args.path)>>
              /\ files[args.path].kind = "csv" => ret = Returned(files[args.path].table)
              /\ files[args.path].kind # "csv" => ret.raised = "ParserError"

\* A call on a path that does not exist.
C4_Witness ==
    /\ AfterCall("load_data")
    /\ args.path = MISSING_FILE
    /\ ret.raised = "FileNotFoundError"

\* The sum of the numbers col holds in the rows S of table t.
RECURSIVE SumOver(_, _, _)
SumOver(t, col, S) ==
    IF S = {} THEN 0
    ELSE LET j == CHOOSE j \in S : TRUE
         IN t.rows[j][col].num + SumOver(t, col, S \ {j})

\* The mean of price over the rows S of t that hold a price: NaN if none does.
PriceMean(t, S) ==
    LET valid == {j \in S : ~isna(t.rows[j]["price"])}
    IN IF valid = {} THEN NaNFloat
       ELSE Float(SumOver(t, "price", valid), Cardinality(valid))

RowsWhere(t, col, cell) == {j \in 1..Len(t.rows) : t.rows[j][col] = cell}
ColumnOf(t, col) == [i \in 1..Len(t.rows) |-> t.rows[i][col]]

\* C5: the keys of avg_price_by_bedrooms(df) are exactly the distinct
\* non-missing values of bedrooms, each once, in ascending order.
C5_GroupKeys ==
    AfterCall("avg_price_by_bedrooms") =>
        LET result == ret.value
            present == {c \in Names(ColumnOf(args.df, "bedrooms")) : ~isna(c)}
        IN /\ {result[i].key : i \in 1..Len(result)} = present
           /\ Len(result) = Cardinality(present)
           /\ \A i \in 1..Len(result) : \A j \in 1..Len(result) :
                 i < j => result[i].key.num < result[j].key.num

\* A call on a table whose bedrooms are 3, then missing, then 2.
C5_Witness ==
    /\ AfterCall("avg_price_by_bedrooms")
    /\ ColumnOf(args.df, "bedrooms") = <<Num(3), NaN, Num(2)>>
    /\ Len(ret.value) = 2

\* C6: each entry of avg_price_by_bedrooms(df) holds the mean of price over
\* the rows of its group whose price is not missing, NaN if the group has no
\* such row; no group is dropped for that; and bedrooms = [2,2,3] with
\* price = [100,200,300] gives {2: 150.0, 3: 300.0}.
C6_GroupMeans ==
    AfterCall("avg_price_by_bedrooms") =>
        LET result == ret.value
            t == args.df
        IN /\ ret.raised = ""
           /\ \A i \in 1..Len(result) :
                 result[i].mean = PriceMean(t, RowsWhere(t, "bedrooms", result[i].key))
           /\ \A j \in 1..Len(t.rows) :
                 ~isna(t.rows[j]["bedrooms"]) =>
                    \E i \in 1..Len(result) : result[i].key = t.rows[j]["bedrooms"]
           /\ (/\ ColumnOf(t, "bedrooms") = <<Num(2), Num(2), Num(3)>>
               /\ ColumnOf(t, "price") = <<Num(100), Num(200), Num(300)>>)
              => result = << [key |-> Num(2), mean |-> [nan |-> FALSE, num |-> 150, den |-> 1]],
                             [key |-> Num(3), mean |-> [nan |-> FALSE, num |-> 300, den |-> 1]] >>

\* A call where one group has two prices and a row without one, and another
\* group has no price at all.
C6_Witness ==
    /\ AfterCall("avg_price_by_bedrooms")
    /\ Len(args.df.rows) = 3
    /\ \E i \in 1..Len(ret.value) : ret.value[i].mean.nan
    /\ \E i \in 1..Len(ret.value) :
          /\ ~ret.value[i].mean.nan
          /\ Cardinality(RowsWhere(args.df, "bedrooms", ret.value[i].key)) = 2

\* C7: compare_air_conditioning(df) = (mean_true, mean_false, difference):
\* the means of price over the rows whose flag is "yes", and over those whose
\* flag is "no"; difference = mean_true - mean_false, NaN if either mean is;
\* an empty subset has a NaN mean; nothing is raised; and flags
\* [yes,no,yes] with prices [100,50,300] give (200.0, 50.0, 150.0).
C7_Compare ==
    AfterCall("compare_air_conditioning") =>
        LET t == args.df
            yes == RowsWhere(t, "airconditioning", Str("yes"))
            no == RowsWhere(t, "airconditioning", Str("no"))
            mt == ret.value[1]
            mf == ret.value[2]
            d == ret.value[3]
        IN /\ ret.raised = ""
           /\ mt = PriceMean(t, yes)
           /\ mf = PriceMean(t, no)
           /\ yes = {} => mt.nan
           /\ no = {} => mf.nan
           /\ d.nan <=> (mt.nan \/ mf.nan)
           /\ ~d.nan => d.num * mt.den * mf.den = (mt.num * mf.den - mf.num * mt.den) * d.den
           /\ (/\ ColumnOf(t, "airconditioning") = <<Str("yes"), Str("no"), Str("yes")>>
               /\ ColumnOf(t, "price") = <<Num(100), Num(50), Num(300)>>)
              => ret.value = << [nan |-> FALSE, num |-> 200, den |-> 1],
                                [nan |-> FALSE, num |-> 50, den |-> 1],
                                [nan |-> FALSE, num |-> 150, den |-> 1] >>

\* A call on rows flagged yes, no and something else, all three with a price.
C7_Witness ==
    /\ AfterCall("compare_air_conditioning")
    /\ Names(ColumnOf(args.df, "airconditioning")) = {Str("yes"), Str("no"), Str("unknown")}
    /\ \A i \in 1..Len(args.df.rows) : ~isna(args.df.rows[i]["price"])
    /\ ~ret.value[3].nan /\ ret.value[3].num < 0

C9_TableReadOnly ==
    (Len(steps) >= 1 /\ steps[1] = Step("load_data", "ok")) =>
        /\ files[DATA_FILE].kind = "csv"
        /\ df = files[DATA_FILE].table

\* A finished run over a table with a missing value.
C9_Witness ==
    /\ pc = "exit" /\ Len(steps) = 7
    /\ \E i \in 1..Len(df.rows) : isna(df.rows[i]["price"])

IndexOfOp(evs, op) == CHOOSE i \in 1..Len(evs) : evs[i].op = op
CountOp(evs, op) == Cardinality({i \in 1..Len(evs) : evs[i].op = op})

\* C10: a call of plot_area_vs_price with a path (a non-empty string) leaves
\* the figure at that path, whatever was there, changes no other file and
\* saves before it shows; a call without one (None, or the empty string)
\* changes no file; either way plt.show is called once and None is returned.
C10_Plot ==
    [][(pc = "call" /\ fn = "plot_area_vs_price") =>
          LET sp == args.save_path
          IN /\ Truthy(sp) =>
                   /\ files' = [files EXCEPT ![sp.path] = Image(Figure(args.df))]
                   /\ CountOp(events', "plt.savefig") = 1
                   /\ events'[IndexOfOp(events', "plt.savefig")].path = sp.path
                   /\ IndexOfOp(events', "plt.savefig") < IndexOfOp(events', "plt.show")
             /\ ~Truthy(sp) =>
                   /\ files' = files
                   /\ CountOp(events', "plt.savefig") = 0
             /\ CountOp(events', "plt.show") = 1
             /\ ret' = Returned("None")]_vars

\* A call that has replaced a stale image at the path given and left the
\* other image alone.
C10_Witness ==
    /\ AfterCall("plot_area_vs_price")
    /\ args.save_path = Some(OTHER_FILE)
    /\ Len(args.df.rows) = 2
    /\ files[OTHER_FILE] = Image(Figure(args.df))
    /\ files[FIGURE_FILE] = StaleImage
====
